---------------------------- MODULE Spec2Model ----------------------------
(***************************************************************************)
(* The CSV product import of app/tasks.py (import_products_task and its   *)
(* helpers), the bulk upsert of app/crud.py, the products table of         *)
(* app/models.py and the status endpoint of app/main.py (task_status).     *)
(*                                                                         *)
(* Text is kept as text: a CSV line is a string, split at commas as        *)
(* csv.reader does for unquoted input; header names and skus are trimmed   *)
(* and lower-cased character by character; prices are parsed digit by      *)
(* digit; what is written to Redis is the decimal text of a number and is  *)
(* parsed back by the reader.  Python's None is the empty tuple and a      *)
(* present value x is the one-element tuple <<x>>.                         *)
(***************************************************************************)
EXTENDS Integers, Sequences, FiniteSets, TLC

VARIABLES
    file,          \* the uploaded temp file: [exists, lines]
    batch_size,    \* int(os.getenv("IMPORT_BATCH_SIZE", "5000"))
    store,         \* the products table: a set of rows
    nextId,        \* the sequence behind products.id
    now,           \* the clock behind created_at / updated_at
    kv,            \* Redis: the five task:<id>:<suffix> keys
    pc,            \* where import_products_task is
    pending,       \* the key/value pairs _set_task_state still has to write
    total_rows,    \* tasks.py local
    stream,        \* the lines csv.DictReader has not consumed yet
    fieldnames,    \* reader.fieldnames
    batch,         \* tasks.py local
    processed,     \* tasks.py local
    invalid_rows,  \* tasks.py local
    exc,           \* the exception being handled: None or <<message>>
    outcome,       \* what the job runner is told: None, <<"SUCCESS">>, <<"FAILURE">>
    published,     \* every Redis SET of the job, in order: <<key, value>>
    upsertCalls,   \* every upsert_products_bulk call of the job: [raw, rows, ret]
    store0,        \* the products table when the job was submitted
    removedBy,     \* who removed the file: "nobody", "other", "job"
    rstep,         \* task_status: how many of its five GETs are done
    rvals,         \* task_status: what the GETs returned so far
    reads,         \* the responses task_status returned, in order
    harness,       \* the direct calls of _dedupe_batch / upsert_products_bulk
    conc           \* the import jobs writing to the table at the same time

vars == <<file, batch_size, store, nextId, now, kv, pc, pending, total_rows,
          stream, fieldnames, batch, processed, invalid_rows, exc, outcome,
          published, upsertCalls, store0, removedBy, rstep, rvals, reads,
          harness, conc>>

None == <<>>
Some(x) == <<x>>

-----------------------------------------------------------------------------
(* Bounds of the model.                                                    *)

MaxRows == 3
MaxReads == 2
MaxBatch == 3

-----------------------------------------------------------------------------
(* Program constants.                                                      *)

DefaultBatchSize == 5000
DefaultChunkSize == 5000

-----------------------------------------------------------------------------
(* Text.                                                                   *)

Char(s, i) == SubSeq(s, i, i)

Min(S) == CHOOSE x \in S : \A y \in S : x <= y
Max(S) == CHOOSE x \in S : \A y \in S : x >= y

LowerChar(c) ==
    CASE c = "A" -> "a" [] c = "B" -> "b" [] c = "C" -> "c" [] c = "D" -> "d"
      [] c = "E" -> "e" [] c = "F" -> "f" [] c = "G" -> "g" [] c = "H" -> "h"
      [] c = "I" -> "i" [] c = "J" -> "j" [] c = "K" -> "k" [] c = "L" -> "l"
      [] c = "M" -> "m" [] c = "N" -> "n" [] c = "O" -> "o" [] c = "P" -> "p"
      [] c = "Q" -> "q" [] c = "R" -> "r" [] c = "S" -> "s" [] c = "T" -> "t"
      [] c = "U" -> "u" [] c = "V" -> "v" [] c = "W" -> "w" [] c = "X" -> "x"
      [] c = "Y" -> "y" [] c = "Z" -> "z" [] OTHER -> c

RECURSIVE Lower(_)
Lower(s) ==
    IF s = "" THEN "" ELSE LowerChar(Char(s, 1)) \o Lower(SubSeq(s, 2, Len(s)))

IsSpace(c) == c \in {" ", "\t"}

Strip(s) ==
    LET keep == {i \in 1..Len(s) : ~IsSpace(Char(s, i))}
    IN  IF keep = {} THEN "" ELSE SubSeq(s, Min(keep), Max(keep))

RECURSIVE Remove(_, _)
Remove(s, c) ==
    IF s = "" THEN ""
    ELSE (IF Char(s, 1) = c THEN "" ELSE Char(s, 1)) \o Remove(SubSeq(s, 2, Len(s)), c)

StartsWith(s, p) == Len(s) >= Len(p) /\ SubSeq(s, 1, Len(p)) = p

DigitVal(c) ==
    CASE c = "0" -> 0 [] c = "1" -> 1 [] c = "2" -> 2 [] c = "3" -> 3
      [] c = "4" -> 4 [] c = "5" -> 5 [] c = "6" -> 6 [] c = "7" -> 7
      [] c = "8" -> 8 [] c = "9" -> 9 [] OTHER -> -1

IsDigits(s) == \A i \in 1..Len(s) : DigitVal(Char(s, i)) >= 0

RECURSIVE DigitsVal(_)
DigitsVal(s) ==
    IF s = "" THEN 0
    ELSE 10 * DigitsVal(SubSeq(s, 1, Len(s) - 1)) + DigitVal(Char(s, Len(s)))

\* One line of unquoted CSV as csv.reader returns it: an empty line is [],
\* any other line is its comma-separated fields.
RECURSIVE SplitFields(_)
SplitFields(line) ==
    LET commas == {i \in 1..Len(line) : Char(line, i) = ","}
    IN  IF commas = {} THEN <<line>>
        ELSE <<SubSeq(line, 1, Min(commas) - 1)>>
                 \o SplitFields(SubSeq(line, Min(commas) + 1, Len(line)))

csv_reader_row(line) == IF line = "" THEN <<>> ELSE SplitFields(line)

-----------------------------------------------------------------------------
(* tasks.py: the pure helpers.                                             *)

\* Empty lines left out of the count.
_count_rows_non_blank(lines) ==
    LET n == Cardinality({i \in 1..Len(lines) : lines[i] # ""})
    IN  IF n - 1 > 0 THEN n - 1 ELSE 0

\* The header line counted as a row.
_count_rows_all_lines(lines) == Len(lines)

_count_rows(lines) == IF Len(lines) - 1 > 0 THEN Len(lines) - 1 ELSE 0

\* Decimal(cleaned): [ok, neg, int, frac] for [sign] digits [. digits] with at
\* least one digit; anything else is decimal.InvalidOperation.
Decimal(cleaned) ==
    LET signed == cleaned # "" /\ Char(cleaned, 1) \in {"-", "+"}
        body   == IF signed THEN SubSeq(cleaned, 2, Len(cleaned)) ELSE cleaned
        dots   == {i \in 1..Len(body) : Char(body, i) = "."}
        ip     == IF dots = {} THEN body ELSE SubSeq(body, 1, Min(dots) - 1)
        fp     == IF dots = {} THEN "" ELSE SubSeq(body, Min(dots) + 1, Len(body))
        ok     == /\ Cardinality(dots) <= 1
                  /\ IsDigits(ip) /\ IsDigits(fp)
                  /\ Len(ip) + Len(fp) >= 1
    IN  [ok |-> ok, neg |-> signed /\ Char(cleaned, 1) = "-", int |-> ip, frac |-> fp]

\* int(d * 100): the whole part times 100 plus the first two fraction digits,
\* truncated toward zero.
IntTimes100(d) ==
    LET two == SubSeq(d.frac \o "00", 1, 2)
        mag == DigitsVal(d.int) * 100 + DigitsVal(two)
    IN  IF d.neg THEN 0 - mag ELSE mag

_parse_price_to_cents(value) ==
    IF value = None \/ value = Some("") THEN None
    ELSE LET cleaned == Strip(Remove(Remove(value[1], "$"), ","))
             d       == Decimal(cleaned)
         IN  IF cleaned = "" \/ ~d.ok THEN None
             ELSE IF IntTimes100(d) >= 0 THEN Some(IntTimes100(d)) ELSE None

\* Python's `a or b` on Optional[int]: None and 0 are both falsy.
PyOr(a, b) == IF a = None \/ a = Some(0) THEN b ELSE a

\* csv.DictReader's dict(zip(fieldnames, row)) with restval None, as the
\* items of the dict in order: a key sits where it first occurs and holds
\* the value assigned to it last.
DictItems(names, row) ==
    LET val(i)  == IF i <= Len(row) THEN Some(row[i]) ELSE None
        firsts  == {i \in 1..Len(names) : \A j \in 1..(i - 1) : names[j] # names[i]}
        last(i) == Max({j \in 1..Len(names) : names[j] = names[i]})
        RECURSIVE build(_)
        build(i) ==
            IF i > Len(names) THEN <<>>
            ELSE (IF i \in firsts THEN <<[key |-> names[i], value |-> val(last(i))]>>
                  ELSE <<>>) \o build(i + 1)
    IN  build(1)

\* normalized.get(name) of _normalize_row: the dict comprehension keeps, for
\* each trimmed lower-cased key, the value of the last item carrying it.
NormalizedGet(items, name) ==
    LET hits == {i \in 1..Len(items) : Lower(Strip(items[i].key)) = name}
    IN  IF hits = {} THEN None ELSE items[Max(hits)].value

\* (value or "").strip()
OrEmptyStrip(v) == IF v = None THEN "" ELSE Strip(v[1])

\* (value or "").strip() or None
OrNone(s) == IF s = "" THEN None ELSE Some(s)

InactiveWords == {"false", "0", "no", "inactive"}

\* A row whose price does not parse is rejected like a row without sku.
_normalize_row_price_required(items) ==
    LET sku         == OrEmptyStrip(NormalizedGet(items, "sku"))
        price_cents == PyOr(_parse_price_to_cents(NormalizedGet(items, "price_cents")),
                            _parse_price_to_cents(NormalizedGet(items, "price")))
    IN  IF sku = "" \/ price_cents = None THEN None
        ELSE Some([sku         |-> sku,
                   name        |-> OrNone(OrEmptyStrip(NormalizedGet(items, "name"))),
                   description |-> OrNone(OrEmptyStrip(NormalizedGet(items, "description"))),
                   price_cents |-> price_cents,
                   active      |-> Lower(OrEmptyStrip(NormalizedGet(items, "active")))
                                       \notin InactiveWords])

_normalize_row(items) ==
    LET sku          == OrEmptyStrip(NormalizedGet(items, "sku"))
        active_value == Lower(OrEmptyStrip(NormalizedGet(items, "active")))
        price_cents  == PyOr(_parse_price_to_cents(NormalizedGet(items, "price_cents")),
                             _parse_price_to_cents(NormalizedGet(items, "price")))
    IN  IF sku = "" THEN None
        ELSE Some([sku         |-> sku,
                   name        |-> OrNone(OrEmptyStrip(NormalizedGet(items, "name"))),
                   description |-> OrNone(OrEmptyStrip(NormalizedGet(items, "description"))),
                   price_cents |-> price_cents,
                   active      |-> active_value \notin InactiveWords])

\* The sku as written taken as the key.
SkuKey_case_sensitive(sku) == sku

\* The key of the dict of _dedupe_batch, and of the unique index of models.py.
SkuKey(sku) == Lower(sku)

\* deduped.setdefault(key, item): the first record of a key is kept.
_dedupe_batch_keep_first(rows) ==
    LET firsts == {i \in 1..Len(rows) :
                       \A j \in 1..(i - 1) : SkuKey(rows[j].sku) # SkuKey(rows[i].sku)}
        RECURSIVE build(_)
        build(i) ==
            IF i > Len(rows) THEN <<>>
            ELSE (IF i \in firsts THEN <<rows[i]>> ELSE <<>>) \o build(i + 1)
    IN  build(1)

\* dict[key] = item for each item, then list(dict.values()): one record per
\* key, placed where the key first occurred, holding its last record.
_dedupe_batch(rows) ==
    LET firsts  == {i \in 1..Len(rows) :
                        \A j \in 1..(i - 1) : SkuKey(rows[j].sku) # SkuKey(rows[i].sku)}
        last(i) == Max({j \in 1..Len(rows) : SkuKey(rows[j].sku) = SkuKey(rows[i].sku)})
        RECURSIVE build(_)
        build(i) ==
            IF i > Len(rows) THEN <<>>
            ELSE (IF i \in firsts THEN <<rows[last(i)]>> ELSE <<>>) \o build(i + 1)
    IN  build(1)


(* models.py and crud.py: the products table and the bulk upsert.          *)

\* A stored Product.  The unique index ix_products_lower_sku_unique allows
\* one row per lower(sku).
ProductRow(id, rec, at) ==
    [id |-> id, sku |-> rec.sku, name |-> rec.name, description |-> rec.description,
     price_cents |-> rec.price_cents, active |-> rec.active,
     created_at |-> at, updated_at |-> at]

UniqueLowerSku(table) ==
    \A r1, r2 \in table : SkuKey(r1.sku) = SkuKey(r2.sku) => r1 = r2

\* sku listed in set_ as well: the row takes the spelling of the new record.
ConflictUpdate_overwriting_sku(old, rec) ==
    [old EXCEPT !.sku = rec.sku, !.name = rec.name, !.description = rec.description,
                !.price_cents = rec.price_cents, !.active = rec.active]

\* updated_at listed in set_ as well: every conflicting upsert moves it.
ConflictUpdate_touching_updated_at(old, rec) ==
    [old EXCEPT !.name = rec.name, !.description = rec.description,
                !.price_cents = rec.price_cents, !.active = rec.active,
                !.updated_at = @ + 1]

\* on_conflict_do_update(set_={name, description, price_cents, active}):
\* the existing row keeps id, sku, created_at and updated_at.
ConflictUpdate(old, rec) ==
    [old EXCEPT !.name = rec.name, !.description = rec.description,
                !.price_cents = rec.price_cents, !.active = rec.active]

\* One INSERT ... VALUES chunk ON CONFLICT (lower(sku)) DO UPDATE statement on
\* db = [store, nextId, now].  Every proposed row draws an id from the
\* sequence, used or not.  Two rows of one statement with the same lower(sku)
\* make PostgreSQL reject the statement.
ExecuteUpsert(db, chunk) ==
    LET idx      == 1..Len(chunk)
        distinct == \A i, j \in idx :
                        SkuKey(chunk[i].sku) = SkuKey(chunk[j].sku) => i = j
        hit(r)   == \E i \in idx : SkuKey(chunk[i].sku) = SkuKey(r.sku)
        recOf(r) == chunk[CHOOSE i \in idx : SkuKey(chunk[i].sku) = SkuKey(r.sku)]
        fresh    == {i \in idx : \A r \in db.store : SkuKey(r.sku) # SkuKey(chunk[i].sku)}
        updated  == {ConflictUpdate(r, recOf(r)) : r \in {q \in db.store : hit(q)}}
        inserted == {ProductRow(db.nextId + i - 1, chunk[i], db.now) : i \in fresh}
        kept     == {r \in db.store : ~hit(r)}
    IN  IF ~distinct
        THEN [ok |-> FALSE, store |-> db.store, nextId |-> db.nextId + Len(chunk),
              now |-> db.now + 1, rowcount |-> 0,
              error |-> "ON CONFLICT DO UPDATE command cannot affect row a second time"]
        ELSE [ok |-> TRUE, store |-> kept \cup updated \cup inserted,
              nextId |-> db.nextId + Len(chunk), now |-> db.now + 1,
              rowcount |-> Cardinality(updated) + Cardinality(inserted),
              error |-> ""]

\* rows_list[i : i + chunk_size] for i in range(0, len(rows_list), chunk_size)
Chunk(rows, chunk_size, k) ==
    SubSeq(rows, (k - 1) * chunk_size + 1,
           IF k * chunk_size < Len(rows) THEN k * chunk_size ELSE Len(rows))

NumChunks(rows, chunk_size) == (Len(rows) + chunk_size - 1) \div chunk_size

\* result.rowcount or len(chunk)
RowcountOrLen(rowcount, chunk) == IF rowcount = 0 THEN Len(chunk) ELSE rowcount

\* upsert_products_bulk(rows, chunk_size) on db.  failAt is the chunk whose
\* statement the database fails (connection lost, ...), 0 for none.  All
\* chunks run in the one transaction of engine.begin(): an exception leaves
\* the table as it was, the ids drawn stay drawn.
\* Returns [ok, store, nextId, now, ret, error].
upsert_products_bulk(db, rows, chunk_size, failAt) ==
    LET RECURSIVE run(_, _, _)
        run(cur, k, done) ==
            IF k > NumChunks(rows, chunk_size)
            THEN [ok |-> TRUE, store |-> cur.store, nextId |-> cur.nextId,
                  now |-> cur.now, ret |-> done, error |-> ""]
            ELSE IF k = failAt
            THEN [ok |-> FALSE, store |-> db.store, nextId |-> cur.nextId,
                  now |-> cur.now, ret |-> 0,
                  error |-> "server closed the connection unexpectedly"]
            ELSE LET chunk == Chunk(rows, chunk_size, k)
                     res   == ExecuteUpsert(cur, chunk)
                 IN  IF ~res.ok
                     THEN [ok |-> FALSE, store |-> db.store, nextId |-> res.nextId,
                           now |-> res.now, ret |-> 0, error |-> res.error]
                     ELSE run([store |-> res.store, nextId |-> res.nextId, now |-> res.now],
                              k + 1, done + RowcountOrLen(res.rowcount, chunk))
    IN  IF rows = <<>>
        THEN [ok |-> TRUE, store |-> db.store, nextId |-> db.nextId, now |-> db.now,
              ret |-> 0, error |-> ""]
        ELSE run(db, 1, 0)


(* The inputs.                                                             *)

RECURSIVE SeqsUpTo(_, _)
SeqsUpTo(S, n) ==
    IF n = 0 THEN {<<>>}
    ELSE LET shorter == SeqsUpTo(S, n - 1)
         IN  shorter \cup {Append(q, x) : q \in {r \in shorter : Len(r) = n - 1}, x \in S}

HeaderLines == {"sku,name,price", "name,price"}

DataLines ==
    {"A1,Widget,$12.50", ",NoKey,5", "A1,Widget2,9.99", "a1,Gadget,abc",
     "B2,Bolt,0.5"}

\* Files with other first lines: none, an empty one, a near miss, padded
\* mixed-case names with a price_cents column, the sku in the second column
\* with a short row; files with empty lines among the data; three rows with
\* three keys.
ScenarioFiles ==
    {<<>>,
     <<"sku,name,price", "A1,Widget,$12.50", "B2,Bolt,0.5", " c3 ,,-1">>,
     <<"sku,name,price", "", "A1,Widget,$12.50", "", ",NoKey,5", "">>,
     <<"sku,name,price", "a1,Gadget,abc", "", "A1,Widget2,9.99", "B2,Bolt,0.5">>,
     <<"">>,
     <<"", "A1,Widget,5">>,
     <<"skus,name", "A1,Widget">>,
     <<" SKU ,Name,price_cents", "A1,Widget,1250", "b2,,0">>,
     <<"Name, Sku,active", "Widget,A1,No", "OnlyName", "Nut,b2,yes">>}

\* The uploaded files: a first line and up to MaxRows more, or a scenario.
Files ==
    ScenarioFiles \cup {<<h>> \o d : h \in HeaderLines, d \in SeqsUpTo(DataLines, MaxRows)}

BatchSizes == {1, 2, DefaultBatchSize}

OldRow ==
    [id |-> 1, sku |-> "a1", name |-> Some("Old"), description |-> Some("kept"),
     price_cents |-> Some(100), active |-> FALSE, created_at |-> 0, updated_at |-> 0]

InitStores == {{}, {OldRow}}

JobStores == {{}}

-----------------------------------------------------------------------------
(* tasks.py: _set_task_state and import_products_task.                     *)

KvKeys == {"status", "progress", "total", "invalid", "error"}

Write(key, value) == [key |-> key, value |-> value]

\* redis_client.set(key, value): an int is stored as its decimal text.
RedisInt(n) == ToString(n)

\* _set_task_state: one SET per keyword argument, in argument order; this is
\* one iteration of its loop.
RedisSet ==
    /\ pending # <<>>
    /\ kv' = [kv EXCEPT ![Head(pending).key] = Some(Head(pending).value)]
    /\ published' = Append(published, Head(pending))
    /\ pending' = Tail(pending)
    /\ UNCHANGED <<file, batch_size, store, nextId, now, pc, total_rows, stream,
                   fieldnames, batch, processed, invalid_rows, exc, outcome,
                   upsertCalls, store0, removedBy, rstep, rvals, reads, harness,
                   conc>>

InitialState ==
    <<Write("status", "initializing"), Write("progress", RedisInt(0)),
      Write("total", RedisInt(0)), Write("invalid", RedisInt(0))>>

ParsingState(total) ==
    <<Write("status", "parsing"), Write("total", RedisInt(total))>>

\* The rows still to do published as progress.
ImportingState_remaining(done, total, invalid) ==
    <<Write("status", "importing (" \o ToString(done) \o "/" \o ToString(total) \o ")"),
      Write("progress", RedisInt(total - done)), Write("invalid", RedisInt(invalid))>>

ImportingState(done, total, invalid) ==
    <<Write("status", "importing (" \o ToString(done) \o "/" \o ToString(total) \o ")"),
      Write("progress", RedisInt(done)), Write("invalid", RedisInt(invalid))>>

CompleteState(done, total, invalid) ==
    <<Write("status", "complete"), Write("progress", RedisInt(done)),
      Write("total", RedisInt(total)), Write("invalid", RedisInt(invalid))>>

\* The counters zeroed again on failure.
ErrorState_resetting_progress(message) ==
    <<Write("status", "error: " \o message), Write("error", message),
      Write("progress", RedisInt(0))>>

\* The error field left out.
ErrorState_status_only(message) == <<Write("status", "error: " \o message)>>

ErrorState(message) ==
    <<Write("status", "error: " \o message), Write("error", message)>>

\* An exception raised inside the try block.
Raise(message) ==
    /\ exc' = Some(message)
    /\ pc' = "except"

\* tasks.py 79-86: the worker picks the job up.
Begin ==
    /\ pc = "queued"
    /\ pending' = InitialState
    /\ pc' = "init"
    /\ UNCHANGED <<file, batch_size, store, nextId, now, kv, total_rows, stream,
                   fieldnames, batch, processed, invalid_rows, exc, outcome,
                   published, upsertCalls, store0, removedBy, rstep, rvals, reads,
                   harness, conc>>

\* tasks.py 89-90.
CountRows ==
    /\ pc = "init" /\ pending = <<>>
    /\ IF file.exists
       THEN /\ total_rows' = _count_rows(file.lines)
            /\ pending' = ParsingState(_count_rows(file.lines))
            /\ pc' = "parsing"
            /\ UNCHANGED exc
       ELSE /\ Raise("[Errno 2] No such file or directory")
            /\ UNCHANGED <<total_rows, pending>>
    /\ UNCHANGED <<file, batch_size, store, nextId, now, kv, stream, fieldnames,
                   batch, processed, invalid_rows, outcome, published, upsertCalls,
                   store0, removedBy, rstep, rvals, reads, harness, conc>>

\* reader.fieldnames or []: the first line if there is one.
ReaderFieldnames(lines) == IF lines = <<>> THEN <<>> ELSE csv_reader_row(lines[1])

\* Only `not headers` tested.
HeaderOk_any_column(names) == names # <<>>

\* tasks.py 94-95: the negation of `not headers or "sku" not in headers`.
HeaderOk(names) ==
    LET headers == {Lower(Strip(names[i])) : i \in 1..Len(names)}
    IN  headers # {} /\ "sku" \in headers

\* tasks.py 92-96.
OpenReader ==
    /\ pc = "parsing" /\ pending = <<>>
    /\ IF ~file.exists
       THEN /\ Raise("[Errno 2] No such file or directory")
            /\ UNCHANGED <<stream, fieldnames>>
       ELSE /\ fieldnames' = ReaderFieldnames(file.lines)
            /\ stream' = IF file.lines = <<>> THEN <<>> ELSE Tail(file.lines)
            /\ IF HeaderOk(ReaderFieldnames(file.lines))
               THEN pc' = "rows" /\ UNCHANGED exc
               ELSE Raise("CSV must include an 'sku' column")
    /\ UNCHANGED <<file, batch_size, store, nextId, now, kv, pending, total_rows,
                   batch, processed, invalid_rows, outcome, published, upsertCalls,
                   store0, removedBy, rstep, rvals, reads, harness, conc>>

\* The lines csv.DictReader still returns as rows: it skips the empty ones.
Records(lines) == {i \in 1..Len(lines) : csv_reader_row(lines[i]) # <<>>}

\* len(batch) > batch_size.
BatchFull_strict(n, size) == n > size

\* tasks.py 105: len(batch) >= batch_size.
BatchFull(n, size) == n >= size

\* tasks.py 98-105: one iteration of `for row in reader`, up to the flush.
ReadRow ==
    /\ pc = "rows" /\ pending = <<>>
    /\ IF Records(stream) = {}
       THEN /\ pc' = "flush"
            /\ stream' = <<>>
            /\ UNCHANGED <<batch, invalid_rows>>
       ELSE LET i       == Min(Records(stream))
                row     == DictItems(fieldnames, csv_reader_row(stream[i]))
                product == _normalize_row(row)
            IN  /\ stream' = SubSeq(stream, i + 1, Len(stream))
                /\ IF product = None
                   THEN /\ invalid_rows' = invalid_rows + 1
                        /\ UNCHANGED <<batch, pc>>
                   ELSE /\ batch' = Append(batch, product[1])
                        /\ pc' = IF BatchFull(Len(batch) + 1, batch_size) THEN "upsert" ELSE "rows"
                        /\ UNCHANGED invalid_rows
    /\ UNCHANGED <<file, batch_size, store, nextId, now, kv, pending, total_rows,
                   fieldnames, processed, exc, outcome, published, upsertCalls,
                   store0, removedBy, rstep, rvals, reads, harness, conc>>

Db == [store |-> store, nextId |-> nextId, now |-> now]

CallRecord(raw, rows, res) ==
    [raw |-> raw, rows |-> rows, ok |-> res.ok, ret |-> res.ret]

\* `batch = []` left out after the upsert of a full batch.
UpsertFull_keeping_batch ==
    /\ pc = "upsert" /\ pending = <<>>
    /\ LET rows == _dedupe_batch(batch)
       IN  \E failAt \in 0..NumChunks(rows, DefaultChunkSize) :
             LET res == upsert_products_bulk(Db, rows, DefaultChunkSize, failAt)
             IN  /\ store' = res.store /\ nextId' = res.nextId /\ now' = res.now
                 /\ upsertCalls' = Append(upsertCalls, CallRecord(batch, rows, res))
                 /\ IF res.ok
                    THEN /\ processed' = processed + res.ret
                         /\ pending' = ImportingState(processed + res.ret, total_rows,
                                                      invalid_rows)
                         /\ pc' = "rows"
                         /\ UNCHANGED exc
                    ELSE /\ Raise(res.error)
                         /\ UNCHANGED <<processed, pending>>
    /\ UNCHANGED <<file, batch_size, kv, total_rows, stream, fieldnames, batch,
                   invalid_rows, outcome, published, store0, removedBy, rstep,
                   rvals, reads, harness, conc>>

\* tasks.py 106-113: a full batch is deduplicated, upserted and published.
UpsertFull ==
    /\ pc = "upsert" /\ pending = <<>>
    /\ LET rows == _dedupe_batch(batch)
       IN  \E failAt \in 0..NumChunks(rows, DefaultChunkSize) :
             LET res == upsert_products_bulk(Db, rows, DefaultChunkSize, failAt)
             IN  /\ store' = res.store /\ nextId' = res.nextId /\ now' = res.now
                 /\ upsertCalls' = Append(upsertCalls, CallRecord(batch, rows, res))
                 /\ IF res.ok
                    THEN /\ processed' = processed + res.ret
                         /\ batch' = <<>>
                         /\ pending' = ImportingState(processed + res.ret, total_rows,
                                                      invalid_rows)
                         /\ pc' = "rows"
                         /\ UNCHANGED exc
                    ELSE /\ Raise(res.error)
                         /\ UNCHANGED <<processed, batch, pending>>
    /\ UNCHANGED <<file, batch_size, kv, total_rows, stream, fieldnames,
                   invalid_rows, outcome, published, store0, removedBy, rstep,
                   rvals, reads, harness, conc>>

\* The records left in the batch at end of stream are not written.
FinalFlush_without_upsert ==
    /\ pc = "flush" /\ pending = <<>>
    /\ pending' = CompleteState(processed, total_rows, invalid_rows)
    /\ pc' = "finish"
    /\ UNCHANGED <<file, batch_size, store, nextId, now, kv, total_rows, stream,
                   fieldnames, batch, processed, invalid_rows, exc, outcome,
                   published, upsertCalls, store0, removedBy, rstep, rvals, reads,
                   harness, conc>>

\* tasks.py 115-124: the last, partial batch and the complete status.
FinalFlush ==
    /\ pc = "flush" /\ pending = <<>>
    /\ IF batch = <<>>
       THEN /\ pending' = CompleteState(processed, total_rows, invalid_rows)
            /\ pc' = "finish"
            /\ UNCHANGED <<store, nextId, now, upsertCalls, processed, exc>>
       ELSE LET rows == _dedupe_batch(batch)
            IN  \E failAt \in 0..NumChunks(rows, DefaultChunkSize) :
                  LET res == upsert_products_bulk(Db, rows, DefaultChunkSize, failAt)
                  IN  /\ store' = res.store /\ nextId' = res.nextId /\ now' = res.now
                      /\ upsertCalls' = Append(upsertCalls, CallRecord(batch, rows, res))
                      /\ IF res.ok
                         THEN /\ processed' = processed + res.ret
                              /\ pending' = CompleteState(processed + res.ret, total_rows,
                                                          invalid_rows)
                              /\ pc' = "finish"
                              /\ UNCHANGED exc
                         ELSE /\ Raise(res.error)
                              /\ UNCHANGED <<processed, pending>>
    /\ UNCHANGED <<file, batch_size, kv, total_rows, stream, fieldnames, batch,
                   invalid_rows, outcome, published, store0, removedBy, rstep,
                   rvals, reads, harness, conc>>

\* tasks.py 125-127: the handler publishes the error, then re-raises.
Except ==
    /\ pc = "except"
    /\ pending' = ErrorState(exc[1])
    /\ pc' = "reraise"
    /\ UNCHANGED <<file, batch_size, store, nextId, now, kv, total_rows, stream,
                   fieldnames, batch, processed, invalid_rows, exc, outcome,
                   published, upsertCalls, store0, removedBy, rstep, rvals, reads,
                   harness, conc>>

\* os.remove(path): [file, raised].
os_remove(f) ==
    IF f.exists
    THEN [file |-> [f EXCEPT !.exists = FALSE], raised |-> None]
    ELSE [file |-> f, raised |-> Some("FileNotFoundError")]

\* No `except FileNotFoundError`.
CleanupEscapes_uncaught(raised) == raised

\* What leaves `try: os.remove(file_path) except FileNotFoundError: pass`.
CleanupEscapes(raised) == IF raised = Some("FileNotFoundError") THEN None ELSE raised

\* tasks.py 128-132: the finally clause, then the task returns or the
\* re-raised exception reaches the job runner.
Finally ==
    /\ pc \in {"finish", "reraise"} /\ pending = <<>>
    /\ LET r == os_remove(file)
       IN  /\ file' = r.file
           /\ removedBy' = IF file.exists /\ ~r.file.exists THEN "job" ELSE removedBy
           /\ outcome' = IF exc = None /\ CleanupEscapes(r.raised) = None
                         THEN Some("SUCCESS") ELSE Some("FAILURE")
    /\ pc' = "done"
    /\ UNCHANGED <<batch_size, store, nextId, now, kv, pending, total_rows, stream,
                   fieldnames, batch, processed, invalid_rows, exc, published,
                   upsertCalls, store0, rstep, rvals, reads, harness, conc>>

\* Somebody else removes the temp file (the case FileNotFoundError is caught
\* for); a file the reader holds open stays readable.
ExternalRemove ==
    /\ pc \notin {"done", "off"}
    /\ file.exists
    /\ file' = [file EXCEPT !.exists = FALSE]
    /\ removedBy' = "other"
    /\ UNCHANGED <<batch_size, store, nextId, now, kv, pc, pending, total_rows,
                   stream, fieldnames, batch, processed, invalid_rows, exc, outcome,
                   published, upsertCalls, store0, rstep, rvals, reads, harness,
                   conc>>

-----------------------------------------------------------------------------
(* main.py: task_status.                                                   *)

PollKeys == <<"progress", "total", "invalid", "status", "error">>

\* int(redis_client.get(key) or 0), 0 on TypeError / ValueError.
_int_value(v) ==
    IF v = None \/ v = Some("") THEN 0
    ELSE IF IsDigits(v[1]) THEN DigitsVal(v[1]) ELSE 0

\* round(x, 2) of x = n / d, in hundredths, ties to even.
RoundHundredths(n, d) ==
    LET q == (n * 100) \div d
        r == (n * 100) % d
    IN  IF 2 * r < d THEN q
        ELSE IF 2 * r > d THEN q + 1
        ELSE IF q % 2 = 0 THEN q ELSE q + 1

\* round((processed / total) * 100, 2) if total else None, in hundredths.
Percent(done, total) ==
    IF total = 0 THEN None ELSE Some(RoundHundredths(done * 100, total))

Response(vals) ==
    [processed |-> _int_value(vals[1]),
     total     |-> _int_value(vals[2]),
     percent   |-> Percent(_int_value(vals[1]), _int_value(vals[2])),
     status    |-> IF vals[4] = None THEN "" ELSE vals[4][1],
     invalid   |-> _int_value(vals[3]),
     error     |-> vals[5]]

\* main.py 170-186: the next GET of a status request; the fifth one is
\* followed by the response.
task_status ==
    /\ pc # "off"
    /\ Len(reads) < MaxReads
    /\ LET got == Append(rvals, kv[PollKeys[rstep + 1]])
       IN  IF rstep + 1 < Len(PollKeys)
           THEN /\ rvals' = got
                /\ rstep' = rstep + 1
                /\ UNCHANGED reads
           ELSE /\ reads' = Append(reads, Response(got))
                /\ rvals' = <<>>
                /\ rstep' = 0
    /\ UNCHANGED <<file, batch_size, store, nextId, now, kv, pc, pending,
                   total_rows, stream, fieldnames, batch, processed, invalid_rows,
                   exc, outcome, published, upsertCalls, store0, removedBy, harness,
                   conc>>

-----------------------------------------------------------------------------
(* The specifications.                                                     *)

ConcOff == [jobs |-> <<>>, commits |-> <<>>]

HarnessOff == [phase |-> "off", rows |-> <<>>, chunk_size |-> 0, deduped |-> <<>>,
               calls |-> <<>>]

JobInit(f, size, table) ==
    /\ file = [exists |-> TRUE, lines |-> f]
    /\ batch_size = size
    /\ store = table /\ store0 = table
    /\ nextId = 1 + Cardinality(table)
    /\ now = 1
    /\ kv = [k \in KvKeys |-> None]
    /\ pc = "queued"
    /\ pending = <<>>
    /\ total_rows = 0
    /\ stream = <<>>
    /\ fieldnames = <<>>
    /\ batch = <<>>
    /\ processed = 0
    /\ invalid_rows = 0
    /\ exc = None
    /\ outcome = None
    /\ published = <<>>
    /\ upsertCalls = <<>>
    /\ removedBy = "nobody"
    /\ rstep = 0 /\ rvals = <<>> /\ reads = <<>>
    /\ harness = HarnessOff
    /\ conc = ConcOff

Init == \E f \in Files, size \in BatchSizes, table \in JobStores : JobInit(f, size, table)

Job ==
    \/ Begin \/ RedisSet \/ CountRows \/ OpenReader \/ ReadRow
    \/ UpsertFull \/ FinalFlush \/ Except \/ Finally

Next == Job \/ ExternalRemove

Spec == Init /\ [][Next]_vars

\* One job and a client polling /task-status/<id>.
PollFiles ==
    {<<"sku,name,price", "A1,Widget,$12.50", ",NoKey,5", "A1,Widget2,9.99">>,
     <<"sku,name,price", "A1,Widget,$12.50", "B2,Bolt,0.5", " c3 ,,-1">>,
     <<"name,price", "Widget,5">>,
     <<>>}

PollBatchSizes == {1, DefaultBatchSize}

InitPoll == \E f \in PollFiles, size \in PollBatchSizes : JobInit(f, size, {})

NextPoll == Job \/ task_status

SpecPoll == InitPoll /\ [][NextPoll]_vars

\* _dedupe_batch and upsert_products_bulk called directly, twice with the
\* same batch, on a table that may hold the key already.
ProductPool ==
    {[sku |-> "A1", name |-> Some("Widget"), description |-> None,
      price_cents |-> Some(1250), active |-> TRUE],
     [sku |-> "a1", name |-> Some("Widget2"), description |-> Some("new"),
      price_cents |-> Some(999), active |-> TRUE],
     [sku |-> "A1", name |-> None, description |-> None,
      price_cents |-> None, active |-> FALSE],
     [sku |-> "B2", name |-> Some("Bolt"), description |-> None,
      price_cents |-> Some(50), active |-> TRUE]}

ChunkSizes == {1, 2, DefaultChunkSize}

InitUpsert ==
    /\ file = [exists |-> FALSE, lines |-> <<>>]
    /\ batch_size = DefaultBatchSize
    /\ store \in InitStores /\ store0 = store
    /\ nextId = 1 + Cardinality(store)
    /\ now = 1
    /\ kv = [k \in KvKeys |-> None]
    /\ pc = "off"
    /\ pending = <<>>
    /\ total_rows = 0
    /\ stream = <<>>
    /\ fieldnames = <<>>
    /\ batch = <<>>
    /\ processed = 0
    /\ invalid_rows = 0
    /\ exc = None
    /\ outcome = None
    /\ published = <<>>
    /\ upsertCalls = <<>>
    /\ removedBy = "nobody"
    /\ rstep = 0 /\ rvals = <<>> /\ reads = <<>>
    /\ conc = ConcOff
    /\ \E rows \in SeqsUpTo(ProductPool, MaxBatch), size \in ChunkSizes :
          harness = [phase |-> "raw", rows |-> rows, chunk_size |-> size,
                     deduped |-> <<>>, calls |-> <<>>]

DedupeCall ==
    /\ harness.phase = "raw"
    /\ harness' = [harness EXCEPT !.phase = "deduped",
                                  !.deduped = _dedupe_batch(harness.rows)]
    /\ UNCHANGED <<file, batch_size, store, nextId, now, kv, pc, pending,
                   total_rows, stream, fieldnames, batch, processed, invalid_rows,
                   exc, outcome, published, upsertCalls, store0, removedBy, rstep,
                   rvals, reads, conc>>

UpsertCall ==
    /\ harness.phase = "deduped"
    /\ Len(harness.calls) < 2
    /\ \E failAt \in 0..NumChunks(harness.deduped, harness.chunk_size) :
         LET res == upsert_products_bulk(Db, harness.deduped, harness.chunk_size, failAt)
         IN  /\ store' = res.store /\ nextId' = res.nextId /\ now' = res.now
             /\ harness' = [harness EXCEPT !.calls =
                                Append(@, [ok |-> res.ok, ret |-> res.ret,
                                           failAt |-> failAt,
                                           before |-> store, after |-> res.store])]
    /\ UNCHANGED <<file, batch_size, kv, pc, pending, total_rows, stream,
                   fieldnames, batch, processed, invalid_rows, exc, outcome,
                   published, upsertCalls, store0, removedBy, rstep, rvals, reads,
                   conc>>

NextUpsert == DedupeCall \/ UpsertCall

SpecUpsert == InitUpsert /\ [][NextUpsert]_vars

-----------------------------------------------------------------------------
(* Import jobs running at the same time on separate workers, each taken at *)
(* its database side: tasks.py 104-116 cuts the valid records into batches *)
(* and hands each, deduplicated, to upsert_products_bulk, which writes it  *)
(* in one transaction (crud.py 18-32).  PostgreSQL, READ COMMITTED: an     *)
(* INSERT ... ON CONFLICT DO UPDATE takes its rows in VALUES order and     *)
(* locks the index key of each until the transaction ends; a statement     *)
(* that meets a key locked by another transaction waits for it; two        *)
(* transactions waiting for each other are a deadlock, and the one whose   *)
(* deadlock check runs first is aborted.                                   *)

MaxJobRows == 2

Workers == {1, 2}

\* The valid records the files of the jobs are made of.
JobPool == {rec \in ProductPool : rec.name # None}

\* Files of one to MaxJobRows records, no record twice.
JobInputs ==
    {q \in SeqsUpTo(JobPool, MaxJobRows) :
        q # <<>> /\ \A i, j \in 1..Len(q) : q[i] = q[j] => i = j}

JobBatchSizes == {1, DefaultBatchSize}

\* A job that has not started: its records, IMPORT_BATCH_SIZE, the batch it
\* is at, and its transaction (the deduplicated batch and the next row).
NewJob(rows, size) ==
    [rows |-> rows, size |-> size, k |-> 1, st |-> "idle", cur |-> <<>>, pos |-> 1,
     error |-> None]

\* tasks.py 104-107, 115: the k-th batch of the job, the last one partial.
JobBatch(j) == Chunk(j.rows, j.size, j.k)

NumBatches(j) == NumChunks(j.rows, j.size)

\* The keys the open transaction of job w has written and holds locked.
Locked(w) ==
    LET j == conc.jobs[w]
    IN  IF j.st = "txn" THEN {SkuKey(j.cur[i].sku) : i \in 1..(j.pos - 1)} ELSE {}

\* The key the statement of job w writes next.
Wants(w) ==
    LET j == conc.jobs[w]
    IN  IF j.st = "txn" /\ j.pos <= Len(j.cur) THEN {SkuKey(j.cur[j.pos].sku)} ELSE {}

WaitsFor(w, v) == w # v /\ Wants(w) \cap Locked(v) # {}

\* crud.py 18: engine.begin() for the next batch of job w.
TxBegin(w) ==
    /\ conc.jobs[w].st = "idle"
    /\ conc' = [conc EXCEPT !.jobs[w].st = "txn",
                            !.jobs[w].cur = _dedupe_batch(JobBatch(conc.jobs[w])),
                            !.jobs[w].pos = 1]
    /\ UNCHANGED <<file, batch_size, store, nextId, now, kv, pc, pending,
                   total_rows, stream, fieldnames, batch, processed, invalid_rows,
                   exc, outcome, published, upsertCalls, store0, removedBy, rstep,
                   rvals, reads, harness>>

\* crud.py 31: the statement of job w takes its next row, once no other
\* transaction holds the key.
TxWrite(w) ==
    /\ conc.jobs[w].st = "txn"
    /\ conc.jobs[w].pos <= Len(conc.jobs[w].cur)
    /\ \A v \in Workers : ~WaitsFor(w, v)
    /\ conc' = [conc EXCEPT !.jobs[w].pos = @ + 1]
    /\ UNCHANGED <<file, batch_size, store, nextId, now, kv, pc, pending,
                   total_rows, stream, fieldnames, batch, processed, invalid_rows,
                   exc, outcome, published, upsertCalls, store0, removedBy, rstep,
                   rvals, reads, harness>>

\* The end of `with engine.begin()`: the transaction of job w commits.  The
\* keys it wrote were locked since, so its statements take effect on the
\* table as it is now; tasks.py goes on to the next batch or finishes.
TxCommit(w) ==
    /\ conc.jobs[w].st = "txn"
    /\ conc.jobs[w].pos > Len(conc.jobs[w].cur)
    /\ LET j   == conc.jobs[w]
           res == upsert_products_bulk(Db, j.cur, DefaultChunkSize, 0)
       IN  /\ store' = res.store /\ nextId' = res.nextId /\ now' = res.now
           /\ conc' = [conc EXCEPT
                         !.jobs[w].st = IF j.k + 1 > NumBatches(j) THEN "done" ELSE "idle",
                         !.jobs[w].k = j.k + 1,
                         !.jobs[w].cur = <<>>,
                         !.jobs[w].pos = 1,
                         !.commits = Append(@, [job |-> w, rows |-> j.cur])]
    /\ UNCHANGED <<file, batch_size, kv, pc, pending, total_rows, stream,
                   fieldnames, batch, processed, invalid_rows, exc, outcome,
                   published, upsertCalls, store0, removedBy, rstep, rvals, reads,
                   harness>>

\* conn.execute raises in job w: PostgreSQL found it waiting for a
\* transaction that waits for it and aborted it.  The transaction is rolled
\* back, the exception leaves upsert_products_bulk and the job (tasks.py
\* 125-127).
TxDeadlock(w) ==
    /\ \E v \in Workers : WaitsFor(w, v) /\ WaitsFor(v, w)
    /\ conc' = [conc EXCEPT !.jobs[w].st = "failed",
                            !.jobs[w].cur = <<>>,
                            !.jobs[w].pos = 1,
                            !.jobs[w].error = Some("deadlock detected")]
    /\ UNCHANGED <<file, batch_size, store, nextId, now, kv, pc, pending,
                   total_rows, stream, fieldnames, batch, processed, invalid_rows,
                   exc, outcome, published, upsertCalls, store0, removedBy, rstep,
                   rvals, reads, harness>>

InitConcurrent ==
    /\ file = [exists |-> FALSE, lines |-> <<>>]
    /\ batch_size = DefaultBatchSize
    /\ store \in InitStores /\ store0 = store
    /\ nextId = 1 + Cardinality(store)
    /\ now = 1
    /\ kv = [k \in KvKeys |-> None]
    /\ pc = "off"
    /\ pending = <<>>
    /\ total_rows = 0
    /\ stream = <<>>
    /\ fieldnames = <<>>
    /\ batch = <<>>
    /\ processed = 0
    /\ invalid_rows = 0
    /\ exc = None
    /\ outcome = None
    /\ published = <<>>
    /\ upsertCalls = <<>>
    /\ removedBy = "nobody"
    /\ rstep = 0 /\ rvals = <<>> /\ reads = <<>>
    /\ harness = HarnessOff
    /\ \E jobs \in [Workers -> {NewJob(rows, size) : rows \in JobInputs,
                                                     size \in JobBatchSizes}] :
          conc = [jobs |-> jobs, commits |-> <<>>]

NextConcurrent ==
    \E w \in Workers : TxBegin(w) \/ TxWrite(w) \/ TxCommit(w) \/ TxDeadlock(w)

SpecConcurrent == InitConcurrent /\ [][NextConcurrent]_vars

-----------------------------------------------------------------------------
(* Observations of a run used by the properties below.                     *)

IsStatusWrite(w) == w.key = "status"
IsProgressWrite(w) == w.key = "progress"
IsImportingWrite(w) == w.key = "status" /\ StartsWith(w.value, "importing (")

Values(ws) == [i \in 1..Len(ws) |-> ws[i].value]
StatusWrites == Values(SelectSeq(published, IsStatusWrite))
ProgressWrites == Values(SelectSeq(published, IsProgressWrite))
ImportingWrites == Values(SelectSeq(published, IsImportingWrite))

Range(q) == {q[i] : i \in 1..Len(q)}

RECURSIVE SumLens(_)
SumLens(calls) ==
    IF calls = <<>> THEN 0
    ELSE (IF Head(calls).ok THEN Len(Head(calls).rows) ELSE 0) + SumLens(Tail(calls))

\* The data rows of a file: the non-empty lines after the first, each as the
\* dict csv.DictReader makes of it.
DataRows(lines) ==
    LET idx == {i \in 2..Len(lines) : lines[i] # ""}
        RECURSIVE build(_)
        build(i) ==
            IF i > Len(lines) THEN <<>>
            ELSE (IF i \in idx
                  THEN <<DictItems(SplitFields(lines[1]), SplitFields(lines[i]))>>
                  ELSE <<>>) \o build(i + 1)
    IN  IF lines = <<>> \/ lines[1] = "" THEN <<>> ELSE build(2)

\* The sku cell of a data row is missing, or empty once trimmed.
BlankSku(row) ==
    LET cells == {i \in 1..Len(row) : Lower(Strip(row[i].key)) = "sku"}
    IN  \/ cells = {}
        \/ row[Max(cells)].value = None
        \/ Strip(row[Max(cells)].value[1]) = ""

\* The first line is absent or names no column that is sku once trimmed and
\* lower-cased.
LacksSku(lines) ==
    \/ lines = <<>>
    \/ lines[1] = ""
    \/ \A name \in Range(SplitFields(lines[1])) : Lower(Strip(name)) # "sku"

Completed == pc = "done" /\ exc = None

StoredFor(key) == {r \in store : Lower(r.sku) = key}

-----------------------------------------------------------------------------
(* C1 *)

C1File == <<"sku,name,price", "A1,Widget,$12.50", ",NoKey,5", "A1,Widget2,9.99">>

C1Run == file.lines = C1File /\ batch_size = DefaultBatchSize /\ Completed

C1Stored ==
    /\ Cardinality(StoredFor("a1")) = 1
    /\ \A r \in StoredFor("a1") :
          r.sku = "A1" /\ r.name = Some("Widget2") /\ r.price_cents = Some(999)

\* C1 as stated: the run of the three-row scenario with the default batch
\* size that no storage or file failure interrupts ends with status complete,
\* total 3, invalid 1, progress 2, and A1 stored as Widget2 at 999 cents.
C1_ScenarioProgressTwo ==
    C1Run => /\ kv["status"] = Some("complete")
             /\ kv["total"] = Some("3")
             /\ kv["invalid"] = Some("1")
             /\ kv["progress"] = Some("2")
             /\ C1Stored

\* C1 amended: the same run ends with status complete, total 3, invalid 1
\* and A1 stored as Widget2 at 999 cents, and progress 1: the two A1 rows
\* share one batch, _dedupe_batch keeps the last, and one row is upserted.
C1_ScenarioProgressOne ==
    C1Run => /\ kv["status"] = Some("complete")
             /\ kv["total"] = Some("3")
             /\ kv["invalid"] = Some("1")
             /\ kv["progress"] = Some("1")
             /\ C1Stored
             /\ outcome = Some("SUCCESS")

C1_Witness == C1Run /\ kv["status"] = Some("complete") /\ Len(upsertCalls) = 1

-----------------------------------------------------------------------------
(* C2 *)

AllProgressZero == \A v \in Range(ProgressWrites) : v = "0"

\* C2: when the first line is absent or has no sku column, no state of the
\* run has called upsert_products_bulk, changed the table or published a
\* progress other than 0, and the finished run has an "error:" status and
\* the error field set.
C2_MissingSkuIsFatal ==
    LacksSku(file.lines) =>
        /\ upsertCalls = <<>>
        /\ store = store0
        /\ AllProgressZero
        /\ kv["progress"] \in {None, Some("0")}
        /\ pc \notin {"rows", "upsert", "flush", "finish"}
        /\ pc = "done" => /\ kv["status"] # None
                          /\ StartsWith(kv["status"][1], "error:")
                          /\ kv["error"] # None
                          /\ kv["error"] # Some("")
                          /\ outcome = Some("FAILURE")

C2_Witness ==
    /\ pc = "done"
    /\ file.lines # <<>> /\ LacksSku(file.lines)
    /\ kv["status"] = Some("error: CSV must include an 'sku' column")
    /\ kv["error"] = Some("CSV must include an 'sku' column")
    /\ kv["progress"] = Some("0")

-----------------------------------------------------------------------------
(* C3 *)

TwoGoodCalls ==
    /\ Len(harness.calls) = 2
    /\ harness.calls[1].ok /\ harness.calls[2].ok
    /\ harness.deduped # <<>>

\* C3: for a non-empty deduplicated batch and any starting table, the table
\* after the second upsert_products_bulk call with the batch equals the table
\* after the first, and the second call returns the size of the batch.
C3_UpsertIdempotent ==
    TwoGoodCalls => /\ harness.calls[2].after = harness.calls[1].after
                    /\ harness.calls[2].ret = Len(harness.deduped)

C3_Witness ==
    /\ TwoGoodCalls
    /\ Len(harness.deduped) = 2
    /\ harness.chunk_size = 1
    /\ store0 # {}
    /\ harness.calls[1].after # harness.calls[1].before

-----------------------------------------------------------------------------
(* C4 *)

LastWithKey(rows, key) ==
    rows[Max({i \in 1..Len(rows) : SkuKey(rows[i].sku) = key})]

SameFields(r, rec) ==
    /\ r.name = rec.name /\ r.description = rec.description
    /\ r.price_cents = rec.price_cents /\ r.active = rec.active

\* C4: after _dedupe_batch and a successful upsert_products_bulk, for every
\* key of the batch the table holds one row with that lower-cased sku, and its
\* name, description, price_cents and active are those of the last record of
\* the batch with that key, whatever the table held for the key before.
C4_LastRecordWins ==
    (Len(harness.calls) >= 1 /\ harness.calls[1].ok) =>
        \A i \in 1..Len(harness.rows) :
            LET key   == SkuKey(harness.rows[i].sku)
                found == {r \in harness.calls[1].after : SkuKey(r.sku) = key}
            IN  /\ Cardinality(found) = 1
                /\ \A r \in found : SameFields(r, LastWithKey(harness.rows, key))

C4_Witness ==
    /\ Len(harness.calls) = 1 /\ harness.calls[1].ok
    /\ store0 # {}
    /\ \E i, j \in 1..Len(harness.rows) :
          /\ i < j
          /\ harness.rows[i].sku # harness.rows[j].sku
          /\ SkuKey(harness.rows[i].sku) = SkuKey(harness.rows[j].sku)
          /\ SkuKey(harness.rows[j].sku) = "a1"
          /\ ~SameFields(harness.rows[i], harness.rows[j])
          /\ j = Max({m \in 1..Len(harness.rows) : SkuKey(harness.rows[m].sku) = "a1"})
          /\ \E r \in store : SkuKey(r.sku) = "a1" /\ SameFields(r, harness.rows[j])

-----------------------------------------------------------------------------
(* C5 *)

\* C5: of two responses of task_status for the job, the later one's percent
\* is not lower than the earlier one's, and is present if the earlier one's
\* is.
C5_PercentNeverDecreases ==
    \A i, j \in 1..Len(reads) :
        (i < j /\ reads[i].percent # None) =>
            /\ reads[j].percent # None
            /\ reads[i].percent[1] <= reads[j].percent[1]

C5_Witness ==
    /\ Len(reads) = 2
    /\ reads[1].percent = Some(3333)
    /\ reads[2].percent = Some(6667)

-----------------------------------------------------------------------------
(* C6 *)

RowProduct(row) == _normalize_row(row)

PriceText(row) ==
    \E i \in 1..Len(row) :
        /\ Lower(Strip(row[i].key)) \in {"price", "price_cents"}
        /\ row[i].value # None
        /\ Strip(row[i].value[1]) # ""

\* A data row with a sku and a price that is text but no amount.
UnparseablePrice(row) ==
    /\ ~BlankSku(row)
    /\ PriceText(row)
    /\ RowProduct(row) # None
    /\ RowProduct(row)[1].price_cents = None

BlankSkuCount(rows) == Cardinality({i \in 1..Len(rows) : BlankSku(rows[i])})

PassedToUpsert(rec) ==
    \E c \in 1..Len(upsertCalls) : rec \in Range(upsertCalls[c].rows)

\* In the batch of an upsert call, and passed on by _dedupe_batch unless a
\* later record of that batch has the same key.
BatchedAndPassedUnlessReplaced(rec) ==
    \E c \in 1..Len(upsertCalls) :
        \E m \in 1..Len(upsertCalls[c].raw) :
            /\ upsertCalls[c].raw[m] = rec
            /\ \/ rec \in Range(upsertCalls[c].rows)
               \/ \E n \in (m + 1)..Len(upsertCalls[c].raw) :
                     SkuKey(upsertCalls[c].raw[n].sku) = SkuKey(rec.sku)

\* C6 as stated: at complete, invalid is the number of data rows (the
\* non-empty lines csv.DictReader returns) whose sku is missing or empty
\* after trimming, and every row with a sku and an unparseable price is in a
\* batch passed to upsert_products_bulk.
C6_UnparseablePriceAlwaysUpserted ==
    Completed =>
        LET rows == DataRows(file.lines)
        IN  /\ kv["invalid"] = Some(ToString(BlankSkuCount(rows)))
            /\ \A i \in 1..Len(rows) :
                  UnparseablePrice(rows[i]) => PassedToUpsert(RowProduct(rows[i])[1])

\* C6 amended: at complete, invalid is the number of data rows whose sku is
\* missing or empty after trimming; a row with a sku and an unparseable price
\* is not rejected and is put in a batch that goes through _dedupe_batch to
\* upsert_products_bulk, which receives it unless a later row of the same
\* batch has the same case-insensitive sku; progress is the number of
\* records the upsert calls received.
C6_InvalidCountsOnlyBlankSku ==
    Completed =>
        LET rows == DataRows(file.lines)
        IN  /\ kv["invalid"] = Some(ToString(BlankSkuCount(rows)))
            /\ \A i \in 1..Len(rows) :
                  UnparseablePrice(rows[i]) =>
                      BatchedAndPassedUnlessReplaced(RowProduct(rows[i])[1])
            /\ kv["progress"] = Some(ToString(SumLens(upsertCalls)))

C6_Witness ==
    /\ Completed
    /\ kv["invalid"] = Some("1")
    /\ \E i \in 1..Len(DataRows(file.lines)) :
          /\ UnparseablePrice(DataRows(file.lines)[i])
          /\ PassedToUpsert(RowProduct(DataRows(file.lines)[i])[1])

-----------------------------------------------------------------------------
(* C7 *)

RowKey(row) == Lower(OrEmptyStrip(NormalizedGet(row, "sku")))

AllValidDistinct(lines) ==
    /\ ~LacksSku(lines)
    /\ LET rows == DataRows(lines)
       IN  /\ \A i \in 1..Len(rows) : ~BlankSku(rows[i])
           /\ \A i, j \in 1..Len(rows) : RowKey(rows[i]) = RowKey(rows[j]) => i = j

ImportingText(done, total) ==
    "importing (" \o ToString(done) \o "/" \o ToString(total) \o ")"

\* C7: a completed run over N valid rows with distinct keys and batch size B
\* publishes N div B importing statuses, the k-th with progress k * B, all
\* of them after parsing and before complete; its progress writes are 0,
\* B, 2B, ..., then N at complete.
C7_OnePublicationPerFullBatch ==
    (Completed /\ AllValidDistinct(file.lines)) =>
        LET n == Len(DataRows(file.lines))
            k == n \div batch_size
        IN  /\ Len(ImportingWrites) = k
            /\ \A j \in 1..k :
                  ImportingWrites[j] = ImportingText(j * batch_size, total_rows)
            /\ ProgressWrites =
                  <<"0">> \o [j \in 1..k |-> ToString(j * batch_size)] \o <<ToString(n)>>
            /\ StatusWrites = <<"initializing", "parsing">> \o ImportingWrites \o <<"complete">>

C7File == <<"sku,name,price", "A1,Widget,$12.50", "B2,Bolt,0.5", " c3 ,,-1">>

C7_Witness ==
    /\ Completed
    /\ file.lines = C7File /\ batch_size = 1
    /\ StatusWrites = <<"initializing", "parsing", "importing (1/3)", "importing (2/3)",
                        "importing (3/3)", "complete">>
    /\ ProgressWrites = <<"0", "1", "2", "3", "3">>

-----------------------------------------------------------------------------
(* C8 *)

\* C8: when the task has exited, after complete or after an error raised in
\* the try block, the file does not exist; a file that was already gone when
\* the cleanup ran changes nothing: the runner is told SUCCESS exactly when no
\* exception was raised in the try block, and then the status is complete.
C8_FileRemovedOnExit ==
    pc = "done" =>
        /\ ~file.exists
        /\ outcome = IF exc = None THEN Some("SUCCESS") ELSE Some("FAILURE")
        /\ exc = None => kv["status"] = Some("complete")
        /\ exc # None => kv["status"] = Some("error: " \o exc[1])

C8_Witness ==
    /\ pc = "done"
    /\ removedBy = "other"
    /\ outcome = Some("SUCCESS")
    /\ kv["status"] = Some("complete")
    /\ upsertCalls # <<>>

-----------------------------------------------------------------------------
(* C9 *)

\* C9: whenever the exception of a failed run has reached the job runner,
\* the status store holds the status "error: <message>" and the error field
\* <message>; the handler has no write left to do when it re-raises.
C9_ErrorPublishedBeforeReraise ==
    /\ outcome = Some("FAILURE") =>
          /\ exc # None
          /\ kv["status"] = Some("error: " \o exc[1])
          /\ kv["error"] = exc
    /\ (pc = "done" /\ exc # None) => (outcome = Some("FAILURE") /\ pending = <<>>)

C9_Witness ==
    /\ outcome = Some("FAILURE")
    /\ exc = Some("server closed the connection unexpectedly")
    /\ kv["error"] = exc
    /\ processed >= 1

-----------------------------------------------------------------------------
(* C10 *)

\* C10 as stated: every response of task_status whose status starts with
\* "error:" carries a non-empty error field.
C10_ErrorStatusReadHasErrorField ==
    \A i \in 1..Len(reads) :
        StartsWith(reads[i].status, "error:") =>
            (reads[i].error # None /\ reads[i].error # Some(""))

-----------------------------------------------------------------------------
(* C11 *)

Keys(rows) == {Lower(rows[i].sku) : i \in 1..Len(rows)}

Concurrent == conc.jobs # <<>>

AllFinished ==
    Concurrent /\ \A w \in Workers : conc.jobs[w].st \in {"done", "failed"}

\* C11: in every state of the table reached by two import jobs upserting
\* their batches in any order and interleaving, no two stored rows have the
\* same lower-cased sku.
C11_OneRowPerLowerSku ==
    \A r1, r2 \in store : Lower(r1.sku) = Lower(r2.sku) => r1 = r2

C11_Witness ==
    /\ AllFinished
    /\ store0 = {}
    /\ Len(conc.commits) >= 3
    /\ \E i \in 1..Len(conc.jobs[1].rows), j \in 1..Len(conc.jobs[2].rows) :
          conc.jobs[1].rows[i].sku = "A1" /\ conc.jobs[2].rows[j].sku = "a1"
    /\ Cardinality(StoredFor("a1")) = 1
    /\ Cardinality(store) = 2

-----------------------------------------------------------------------------
(* C17 *)

CommitsOf(key) == {i \in 1..Len(conc.commits) : key \in Keys(conc.commits[i].rows)}

\* The record of the key in the batch that committed last with it.
LastCommitted(key) ==
    LET rows == conc.commits[Max(CommitsOf(key))].rows
    IN  rows[CHOOSE i \in 1..Len(rows) : Lower(rows[i].sku) = key]

SharedKeys == Keys(conc.jobs[1].rows) \cap Keys(conc.jobs[2].rows)

LastCommitStored ==
    \A key \in SharedKeys :
        CommitsOf(key) # {} =>
            /\ Cardinality(StoredFor(key)) = 1
            /\ \A r \in StoredFor(key) : SameFields(r, LastCommitted(key))

\* C17 as stated: when two jobs that write a common case-insensitive sku have
\* both finished, neither was aborted by a conflict with the other, and for
\* every such key the stored name, description, price_cents and active are
\* those of the record in the batch that committed last for the key.
C17_LastCommitWinsWithoutAbort ==
    (AllFinished /\ SharedKeys # {}) =>
        /\ \A w \in Workers : conc.jobs[w].st = "done"
        /\ LastCommitStored

\* What does hold at every moment: the row of a key both jobs write carries
\* the four fields of the batch that committed last for it.
C17_LastCommitStoredAlways == Concurrent => LastCommitStored

-----------------------------------------------------------------------------
(* C12 *)

IsErrorText(v) == StartsWith(v, "error:")
IsImportingText(v) == StartsWith(v, "importing (")

\* C12 as stated: every error status the job publishes follows a published
\* status of parsing or importing; none follows initializing directly.
C12_ErrorOnlyAfterParsingOrImporting ==
    \A i \in 1..Len(StatusWrites) :
        IsErrorText(StatusWrites[i]) =>
            /\ i > 1
            /\ StatusWrites[i - 1] = "parsing" \/ IsImportingText(StatusWrites[i - 1])

-----------------------------------------------------------------------------
(* C13 *)

PhaseRank(v) ==
    CASE v = "initializing" -> 1
      [] v = "parsing" -> 2
      [] IsImportingText(v) -> 3
      [] OTHER -> 4

IsTerminalWrite(w) ==
    w.key = "status" /\ (w.value = "complete" \/ IsErrorText(w.value))

TerminalAt == {i \in 1..Len(published) : IsTerminalWrite(published[i])}

IsPrefix(p, q) == Len(p) <= Len(q) /\ p = SubSeq(q, 1, Len(p))

KeysAfter(t) == [i \in 1..(Len(published) - t) |-> published[t + i].key]

\* C13: the statuses the job publishes never go back to an earlier phase of
\* initializing, parsing, importing, complete or error; complete or error is
\* published once; and what the job writes from the terminal status on is
\* that one publication and nothing more: after complete only the progress,
\* total and invalid of the same _set_task_state call, after error only the
\* error field.
C13_StatusMovesForwardThenStops ==
    /\ \A i, j \in 1..Len(StatusWrites) :
          i < j => PhaseRank(StatusWrites[i]) <= PhaseRank(StatusWrites[j])
    /\ Cardinality(TerminalAt) <= 1
    /\ \A t \in TerminalAt :
          IF published[t].value = "complete"
          THEN IsPrefix(KeysAfter(t), <<"progress", "total", "invalid">>)
          ELSE IsPrefix(KeysAfter(t), <<"error">>)
    /\ pc = "done" => (pending = <<>> /\ TerminalAt # {})

C13_Witness ==
    /\ pc = "done"
    /\ Len(StatusWrites) >= 4
    /\ IsErrorText(StatusWrites[Len(StatusWrites)])
    /\ IsImportingText(StatusWrites[Len(StatusWrites) - 1])
    /\ published[Len(published)].key = "error"

-----------------------------------------------------------------------------
(* C14 *)

\* The records of the chunks before the k-th of a call.
ChunksBefore(rows, chunk_size, k) ==
    SubSeq(rows, 1, Min({Len(rows), (k - 1) * chunk_size}))

StoredAs(table, rec) ==
    \E r \in table : Lower(r.sku) = Lower(rec.sku) /\ SameFields(r, rec)

\* C14 as stated: when the statement of a chunk fails inside
\* upsert_products_bulk, the records of every chunk of that call written
\* before it are in the table after the call.
C14_EarlierChunksStayCommitted ==
    \A c \in 1..Len(harness.calls) :
        LET call == harness.calls[c]
        IN  (~call.ok /\ call.failAt >= 1) =>
                \A rec \in Range(ChunksBefore(harness.deduped, harness.chunk_size,
                                              call.failAt)) :
                    StoredAs(call.after, rec)

\* What the job does on a failed call: it makes no further call, and the
\* calls before it stay in the table.
C14_FailedCallEndsJob ==
    \A c \in 1..Len(upsertCalls) :
        ~upsertCalls[c].ok =>
            /\ c = Len(upsertCalls)
            /\ pc \in {"except", "reraise", "done"}
            /\ \A b \in 1..(c - 1) :
                  \A rec \in Range(upsertCalls[b].rows) :
                      \E r \in store : Lower(r.sku) = Lower(rec.sku)

-----------------------------------------------------------------------------
(* C15 *)

\* The records _normalize_row accepts among the data rows, in file order.
RECURSIVE ValidOf(_)
ValidOf(rows) ==
    IF rows = <<>> THEN <<>>
    ELSE (IF RowProduct(Head(rows)) = None THEN <<>> ELSE RowProduct(Head(rows)))
             \o ValidOf(Tail(rows))

ValidProducts(lines) == ValidOf(DataRows(lines))

\* The batches of the calls one after the other, before _dedupe_batch.
RECURSIVE AllBatched(_)
AllBatched(calls) ==
    IF calls = <<>> THEN <<>> ELSE Head(calls).raw \o AllBatched(Tail(calls))

\* What upsert_products_bulk received, call after call.
RECURSIVE AllPassed(_)
AllPassed(calls) ==
    IF calls = <<>> THEN <<>> ELSE Head(calls).rows \o AllPassed(Tail(calls))

RECURSIVE SumRet(_)
SumRet(calls) ==
    IF calls = <<>> THEN 0 ELSE Head(calls).ret + SumRet(Tail(calls))

\* C15 as stated: at complete, the records upsert_products_bulk received
\* over all calls are the valid rows of the file, each once, none dropped;
\* and the progress published at complete is the sum of the calls' return
\* values.
C15_EveryValidRowPassedOnce ==
    Completed =>
        /\ AllPassed(upsertCalls) = ValidProducts(file.lines)
        /\ kv["progress"] = Some(ToString(SumRet(upsertCalls)))

\* C15 amended: at complete, every valid row of the file is in exactly one
\* batch, in file order, every batch but the last holds batch_size records
\* and the last holds from one to batch_size; each batch went once through
\* _dedupe_batch to upsert_products_bulk, which received every record of it
\* except those followed in the same batch by a record with the same
\* case-insensitive sku; progress is the sum of the calls' return values.
C15_EveryValidRowBatchedOnce ==
    Completed =>
        /\ AllBatched(upsertCalls) = ValidProducts(file.lines)
        /\ \A c \in 1..Len(upsertCalls) :
              LET call == upsertCalls[c]
              IN  /\ call.ok
                  /\ Len(call.raw) >= 1 /\ Len(call.raw) <= batch_size
                  /\ c < Len(upsertCalls) => Len(call.raw) = batch_size
                  /\ \A m \in 1..Len(call.raw) :
                        \/ call.raw[m] \in Range(call.rows)
                        \/ \E n \in (m + 1)..Len(call.raw) :
                              SkuKey(call.raw[n].sku) = SkuKey(call.raw[m].sku)
                  /\ \A rec \in Range(call.rows) : rec \in Range(call.raw)
        /\ kv["progress"] = Some(ToString(SumRet(upsertCalls)))

C15_Witness ==
    /\ Completed
    /\ batch_size = 2
    /\ Len(upsertCalls) = 2
    /\ Len(upsertCalls[1].rows) < Len(upsertCalls[1].raw)
    /\ Len(upsertCalls[2].raw) = 1
    /\ kv["progress"] = Some("2")

-----------------------------------------------------------------------------
(* C16 *)

\* The record of the batch that collides with a stored row.
Colliding(rows, old) ==
    {i \in 1..Len(rows) : Lower(rows[i].sku) = Lower(old.sku)}

\* C16: after a successful upsert_products_bulk call, a row that was in the
\* table and whose lower-cased sku is that of a record of the batch is still
\* there with the same id, sku (letter case included), created_at and
\* updated_at, and with the name, description, price_cents and active of
\* the record; a row no record collides with is untouched.
C16_CollisionChangesOnlyMutableFields ==
    \A c \in 1..Len(harness.calls) :
        LET call == harness.calls[c]
        IN  call.ok =>
              \A old \in call.before :
                  IF Colliding(harness.deduped, old) = {}
                  THEN old \in call.after
                  ELSE \E r \in call.after :
                          /\ r.id = old.id /\ r.sku = old.sku
                          /\ r.created_at = old.created_at
                          /\ r.updated_at = old.updated_at
                          /\ \A i \in Colliding(harness.deduped, old) :
                                SameFields(r, harness.deduped[i])

C16_Witness ==
    /\ Len(harness.calls) = 1 /\ harness.calls[1].ok
    /\ harness.calls[1].before = {OldRow}
    /\ \E r \in store :
          /\ r.id = OldRow.id /\ r.sku = "a1" /\ r.created_at = OldRow.created_at
          /\ r.name = Some("Widget") /\ r.price_cents = Some(1250) /\ r.active
          /\ r.description = None
    /\ \E i \in 1..Len(harness.deduped) : harness.deduped[i].sku = "A1"
    /\ Cardinality(store) = 2

-----------------------------------------------------------------------------
(* C18 *)

RECURSIVE ValidRowsOf(_)
ValidRowsOf(rows) ==
    IF rows = <<>> THEN <<>>
    ELSE (IF BlankSku(Head(rows)) THEN <<>> ELSE <<Head(rows)>>) \o ValidRowsOf(Tail(rows))

\* A cell that is a non-negative integer once "$", "," and the surrounding
\* blanks are removed: <<n>>, otherwise None.
IntegerCell(v) ==
    IF v = None THEN None
    ELSE LET cleaned == Strip(Remove(Remove(v[1], "$"), ","))
         IN  IF cleaned # "" /\ IsDigits(cleaned) THEN Some(DigitsVal(cleaned)) ELSE None

\* The price the claim gives a row: the integer of the price_cents column
\* when it holds one, otherwise the price column as an amount times 100.
ClaimedPrice(row) ==
    IF IntegerCell(NormalizedGet(row, "price_cents")) # None
    THEN IntegerCell(NormalizedGet(row, "price_cents"))
    ELSE _parse_price_to_cents(NormalizedGet(row, "price"))

\* C18 as stated: the record made of every data row with a sku (none is
\* rejected for its price) has as price_cents the integer n of the
\* price_cents column when that column holds a non-negative integer, 0
\* included, and otherwise the price column times 100, truncated, or no
\* price.
C18_PriceCentsColumnTakenAsCents ==
    Completed =>
        LET rows == ValidRowsOf(DataRows(file.lines))
        IN  /\ Len(AllBatched(upsertCalls)) = Len(rows)
            /\ \A i \in 1..Len(rows) :
                  AllBatched(upsertCalls)[i].price_cents = ClaimedPrice(rows[i])

-----------------------------------------------------------------------------
(* C19 *)

\* C19 as stated: every response of task_status whose status is complete
\* carries the final progress and invalid of the job (its processed and
\* invalid_rows once complete is published).
C19_CompleteReadHasFinalCounters ==
    \A i \in 1..Len(reads) :
        reads[i].status = "complete" =>
            /\ reads[i].processed = processed
            /\ reads[i].invalid = invalid_rows

-----------------------------------------------------------------------------
(* C20 *)

\* The records _dedupe_batch removed, over all calls.
RECURSIVE DedupeRemoved(_)
DedupeRemoved(calls) ==
    IF calls = <<>> THEN 0
    ELSE Len(Head(calls).raw) - Len(Head(calls).rows) + DedupeRemoved(Tail(calls))

\* The empty lines after the first line.
BlankLines(lines) == Cardinality({i \in 2..Len(lines) : lines[i] = ""})

\* C20: in every state of the status store in which total is set, progress
\* plus invalid is at most total and the percent computed from the stored
\* progress and total is at most 100; at complete, total minus progress minus
\* invalid is the number of records removed by _dedupe_batch plus the number
\* of empty lines.
C20_CountersWithinTotal ==
    /\ kv["total"] # None =>
          /\ _int_value(kv["progress"]) + _int_value(kv["invalid"])
                 <= _int_value(kv["total"])
          /\ LET p == Percent(_int_value(kv["progress"]), _int_value(kv["total"]))
             IN  p # None => p[1] <= 10000
    /\ Completed =>
          _int_value(kv["total"]) - _int_value(kv["progress"]) - _int_value(kv["invalid"])
              = DedupeRemoved(upsertCalls) + BlankLines(file.lines)

C20_Witness ==
    /\ Completed
    /\ BlankLines(file.lines) = 1
    /\ DedupeRemoved(upsertCalls) = 1
    /\ kv["total"] = Some("4") /\ kv["progress"] = Some("2") /\ kv["invalid"] = Some("0")

-----------------------------------------------------------------------------
(* C21 *)

\* A step in which upsert_products_bulk returned: a flush of the batch.
Flushed ==
    /\ Len(upsertCalls') = Len(upsertCalls) + 1
    /\ upsertCalls'[Len(upsertCalls')].ok

\* The flush of a full batch in the loop (tasks.py 105-107), and the flush of
\* what is left at end of stream (tasks.py 115-116).
FlushedInLoop == Flushed /\ pc = "upsert"
FlushedAtEnd == Flushed /\ pc = "flush"

\* C21 as stated: the batch never holds more than batch_size records, and it
\* is empty right after every flush.
C21_BatchBoundedAndEmptyAfterEveryFlush ==
    /\ [](Len(batch) <= batch_size)
    /\ [][Flushed => batch' = <<>>]_vars

\* C21 amended: the batch never holds more than batch_size records; it is
\* empty right after every flush of a full batch in the loop; the flush at
\* end of stream leaves in it the records it just wrote (one to batch_size
\* of them), and the job reads no row and makes no call after that.
C21_BatchBoundedAndEmptyAfterLoopFlush ==
    /\ [](Len(batch) <= batch_size)
    /\ [][FlushedInLoop => (Len(batch) = batch_size /\ batch' = <<>>)]_vars
    /\ [][FlushedAtEnd => (batch' = batch /\ batch # <<>> /\ pc' = "finish")]_vars
    /\ [][(pc = "finish" \/ pc = "done") =>
              (batch' = batch /\ upsertCalls' = upsertCalls)]_vars

C21_Witness ==
    /\ pc = "finish"
    /\ batch_size = 2
    /\ Len(upsertCalls) = 2
    /\ upsertCalls[2].ok
    /\ Len(batch) = 1
    /\ upsertCalls[2].raw = batch

=============================================================================
